---------------------------- MODULE Spec2Model ----------------------------
(***************************************************************************)
(* Model of backend/services.py: transcribe_audio (upload, provider        *)
(* selection, chunked transcription) and split_wav_to_chunks (size based   *)
(* segmentation with recursive re-splitting).                              *)
(*                                                                         *)
(* Files are named by paths: <<"in">> the caller's local file, <<"s3dl">>  *)
(* the S3 download temp, <<"mp3">> the converted MP3, <<"wav">> the WAV    *)
(* made for speech-to-text, and Append(p, k) the k-th segment (counted in  *)
(* time order from 0) that ffmpeg wrote when splitting file p.             *)
(* Byte sizes are small integers, durations are whole milliseconds.        *)
(***************************************************************************)
EXTENDS Integers, Sequences, FiniteSets, TLC

\* ------------------------------------------------------------------ bounds
MaxSize == 3          \* largest byte size of a WAV in the model
MaxChunkFiles == 3    \* most segment files written during one call
MaxChunks == MaxChunkFiles - 1   \* most segment files one ffmpeg run writes
MaxDepth == 3         \* nesting of split_wav_to_chunks the interpreter allows
PROVIDER_MAX_BYTES == 2   \* services.py:46, scaled to the model's byte sizes

\* ------------------------------------------------------- program constants
MIN_SEGMENT_SECONDS == 5  \* services.py:213
PAD_WIDTH == 3            \* services.py:222, "%03d"

\* measured durations (ms) the duration probe may report for a file
Durations == {4000, 12000}

Exts == {"mp3", "wav", "other"}

NoPath == <<>>

Min(a, b) == IF a < b THEN a ELSE b
Max(a, b) == IF a > b THEN a ELSE b

VARIABLES
    env,            \* the configuration (module constants, host tools) a call runs under
    arg,            \* arguments of the running call
    pc,             \* position of the running call
    fs,             \* the filesystem: path -> [size, dur]
    created_temp,   \* transcribe_audio's list of temporaries to remove
    mp3_path,       \* transcribe_audio's mp3_path
    uploads,        \* objects put in the input bucket by this call
    hosted,         \* "none" | "ok" | "failed": the AssemblyAI attempt
    chunked,        \* the chunked path was entered (line 548 reached)
    splitCalls,     \* top-level calls of split_wav_to_chunks
    stack,          \* frames of split_wav_to_chunks, innermost last
    made,           \* every temporary file this call created
    chunk_paths,    \* transcribe_audio's chunk_paths
    submitted,      \* segments handed to transcribe_with_openai_chunk, in order
    failedIdx,      \* indexes (1-based) of the segments whose transcription raised
    combined_texts, \* transcribe_audio's combined_texts
    provider_raw_list,
    result,         \* the value returned, or NoResult
    raised,         \* the error raised, or "none"
    conf,           \* main.py and services.py configuration read at import
    db,             \* the transcriptions table: row i has id i
    response,       \* the response of the request handled last
    client,         \* services.client, the module-level provider client handle
    req,            \* requests that use the client handle, by request
    now,            \* datetime.utcnow() in whole seconds
    stored          \* objects in S3 and files under outputs_dir: location -> record

\* the state of the web application around the pipeline
apiVars == <<conf, db, response, client, req, now, stored>>

vars == <<env, arg, pc, fs, created_temp, mp3_path, uploads, hosted, chunked,
          splitCalls, stack, made, chunk_paths, submitted, failedIdx,
          combined_texts, provider_raw_list, result, raised,
          conf, db, response, client, req, now, stored>>


\* ------------------------------------------------------------ file names
\* decimal digits of k, most significant first
RECURSIVE DigitsOf(_)
DigitsOf(k) == IF k < 10 THEN <<k>> ELSE Append(DigitsOf(k \div 10), k % 10)

\* "%03d": at least PAD_WIDTH digits, zero padded, never truncated
RECURSIVE ZeroPad(_)
ZeroPad(s) == IF Len(s) >= PAD_WIDTH THEN s ELSE ZeroPad(<<0>> \o s)

CharDot == 46         \* ord(".")
CharZero == 48        \* ord("0")
CharUnderscore == 95  \* ord("_")

\* The part of a segment file's name that follows the name stem of `base`:
\* "_chunk_NNN" for every level below base, then ".wav".  All names compared
\* share the text "chunk_" and "wav", so only the digits and the character
\* that follows them ("_" of a deeper "_chunk_", or "." of ".wav") are kept.
RECURSIVE NameKey(_, _)
NameKey(base, p) ==
    IF Len(p) <= Len(base) THEN <<>>
    ELSE LET k == p[Len(base) + 1]
             digits == ZeroPad(DigitsOf(k))
             follow == IF Len(p) = Len(base) + 1 THEN CharDot ELSE CharUnderscore
         IN  [i \in 1..Len(digits) |-> CharZero + digits[i]] \o <<follow>>
             \o NameKey(Append(base, k), p)

\* Python's str "<": lexicographic by character code, a proper prefix first
LexLess(a, b) ==
    LET m == Min(Len(a), Len(b))
        diff == {i \in 1..m : a[i] # b[i]}
    IN  IF diff = {} THEN Len(a) < Len(b)
        ELSE LET i == CHOOSE j \in diff : \A h \in diff : j <= h
             IN  a[i] < b[i]

\* sorted(names): the paths of S ordered by file name.  Each path is ranked
\* by the number of names that sort before its own.
SortedByName(base, S) ==
    LET keyed == {<<NameKey(base, q), q>> : q \in S}
        ranked == {<<Cardinality({x \in keyed : LexLess(x[1], r[1])}), r[2]>> : r \in keyed}
    IN  [i \in 1..Cardinality(S) |-> (CHOOSE r \in ranked : r[1] = i - 1)[2]]

IsPrefix(p, q) == Len(p) <= Len(q) /\ SubSeq(q, 1, Len(p)) = p

\* out_dir.glob(f"{wav.stem}_chunk_*.wav") on the filesystem f
GlobChunks(f, p) == {q \in DOMAIN f : Len(q) > Len(p) /\ IsPrefix(p, q)}

\* ------------------------------------------------------- split arithmetic
IntDuration(dur_ms) == dur_ms \div 1000

\* bps = file_size / max(0.001, duration); max(5, int(max_bytes / bps))
TargetSeconds(file_size, dur_ms, max_bytes) ==
    Max(MIN_SEGMENT_SECONDS, (max_bytes * Max(1, dur_ms)) \div (file_size * 1000))

\* lines 210 and 216: the file is returned whole
ReturnsWhole(file_size, dur_ms, max_bytes) ==
    \/ file_size <= max_bytes
    \/ TargetSeconds(file_size, dur_ms, max_bytes) >= IntDuration(dur_ms)

\* ------------------------------------------------------------ the state
S3_URI == "s3://input/audio.mp3"

\* a returned dict: `keys` are the keys it holds
NoResult == [kind |-> "none", keys |-> {}, s3_uri |-> "", file_size |-> 0,
             text |-> <<>>, provider_raw |-> <<>>]
Envs == [aai : BOOLEAN, use_openai : BOOLEAN, bucket : BOOLEAN, ffmpeg : BOOLEAN]
NoEnv == [aai |-> FALSE, use_openai |-> FALSE, bucket |-> FALSE, ffmpeg |-> FALSE]
NoArg == [fn |-> "none", s3 |-> FALSE, ext |-> "mp3", exists |-> FALSE,
          upload_only |-> TRUE, max_bytes |-> 0]

Attr(size, dur) == [size |-> size, dur |-> dur]
NoFiles == [q \in {} |-> Attr(0, 0)]
WithFile(f, p, a) == [q \in DOMAIN f \cup {p} |-> IF q = p THEN a ELSE f[q]]
Unlinked(f, P) == [q \in DOMAIN f \ P |-> f[q]]
Range(seq) == {seq[i] : i \in 1..Len(seq)}

\* transcript texts: the text heard in a segment, the empty string, the marker
Text(ch) == [kind |-> "text", seg |-> ch]
EmptyText == [kind |-> "empty", seg |-> NoPath]
Placeholder == [kind |-> "error", seg |-> NoPath]   \* "(error transcribing chunk)"
Truthy(t) == t.kind # "empty"

\* "\n".join([t for t in combined_texts if t]).strip(), as its list of lines
JoinedText(texts) == SelectSeq(texts, Truthy)

LocalIn == IF arg.s3 THEN <<"s3dl">> ELSE <<"in">>

Frame(path, max_bytes) ==
    [path |-> path, max_bytes |-> max_bytes, phase |-> "enter",
     chunks |-> <<>>, i |-> 1, final |-> <<>>]

\* ------------------------------------------------- the web application
MaxRecords == 2       \* most rows of the transcriptions table

\* OPENAI_API_KEY, TRANSFORM_INPUT_BUCKET and OUTPUT_S3_BUCKET are set
Confs == [key : BOOLEAN, in_bucket : BOOLEAN, out_bucket : BOOLEAN]
NoConf == [key |-> FALSE, in_bucket |-> FALSE, out_bucket |-> FALSE]

Null == "null"        \* None, and a JSON null in a response
NoRows == [i \in {} |-> Null]
NoObjects == [k \in {} |-> 0]

\* a response: its status code and the fields of its body the model follows;
\* `save` is what save_transcript_and_summary did while it was made, `detail`
\* the cause an error response names
NoResponse == [op |-> "none", status |-> 0, id |-> 0, transcript |-> Null,
               summary |-> Null, transcript_s3 |-> Null, summary_s3 |-> Null,
               save |-> "not_run", detail |-> "none"]

Requests == {1, 2}
NoRequest == [pc |-> "idle", fn |-> "none", transcript |-> Null, reply |-> "none",
              init |-> "not_run", outcome |-> "none"]

\* no request has been handled
ApiIdle ==
    /\ conf = NoConf
    /\ db = NoRows
    /\ response = NoResponse
    /\ client = Null
    /\ req = [r \in Requests |-> NoRequest]
    /\ now = 0
    /\ stored = NoObjects

Init ==
    /\ ApiIdle
    /\ env = NoEnv
    /\ arg = NoArg
    /\ pc = "idle"
    /\ fs = NoFiles
    /\ created_temp = <<>>
    /\ mp3_path = NoPath
    /\ uploads = 0
    /\ hosted = "none"
    /\ chunked = FALSE
    /\ splitCalls = 0
    /\ stack = <<>>
    /\ made = NoFiles
    /\ chunk_paths = <<>>
    /\ submitted = <<>>
    /\ failedIdx = {}
    /\ combined_texts = <<>>
    /\ provider_raw_list = <<>>
    /\ result = NoResult
    /\ raised = "none"

loopVars == <<chunk_paths, submitted, failedIdx, combined_texts, provider_raw_list>>
histVars == <<uploads, hosted, chunked, splitCalls>>
pipeVars == <<env, arg, pc, fs, created_temp, mp3_path, histVars, stack, made,
              loopVars, result, raised>>

\* ------------------------------------------------- exits of transcribe_audio
\* finally (lines 582-592): unlink every path of created_temp that exists
Cleanup(f, temps) == Unlinked(f, Range(temps))

\* except (lines 579-581) then finally
Raise(cause) ==
    /\ pc' = "raised"
    /\ raised' = cause
    /\ fs' = Cleanup(fs, created_temp)
    /\ UNCHANGED <<env, arg, created_temp, mp3_path, stack, made, loopVars, result>>

\* return (lines 529, 539, 546, 577) then finally
Return(res) ==
    /\ pc' = "done"
    /\ result' = res
    /\ fs' = Cleanup(fs, created_temp)
    /\ UNCHANGED <<env, arg, created_temp, mp3_path, stack, made, loopVars, raised>>

\* base = {"s3_uri": s3_uri, "file_size": file_size} (line 526)
Base == [kind |-> "base", keys |-> {"s3_uri", "file_size"}, s3_uri |-> S3_URI,
         file_size |-> fs[mp3_path].size, text |-> <<>>, provider_raw |-> <<>>]

\* ------------------------------------------------------- transcribe_audio
\* transcribe_audio(audio_file, upload_only): a local path or an s3:// URI
CallTranscribe ==
    /\ pc = "idle"
    /\ \E s3 \in BOOLEAN, ext \in Exts, exists \in BOOLEAN, upload_only \in BOOLEAN :
         /\ arg' = [fn |-> "transcribe_audio", s3 |-> s3, ext |-> ext, exists |-> exists,
                    upload_only |-> upload_only, max_bytes |-> PROVIDER_MAX_BYTES]
         /\ fs' = IF ~s3 /\ exists THEN WithFile(NoFiles, <<"in">>, Attr(1, 0)) ELSE NoFiles
         /\ pc' = IF s3 THEN "download" ELSE "mp3"
    /\ env' \in Envs
    /\ UNCHANGED <<created_temp, mp3_path, histVars, stack, made, loopVars, result, raised>>
    /\ UNCHANGED apiVars

\* lines 502-503: an empty audio_file raises before anything is created
CallEmpty ==
    /\ pc = "idle"
    /\ pc' = "raised"
    /\ raised' = "ValueError"
    /\ UNCHANGED <<env, arg, fs, created_temp, mp3_path, histVars, stack, made, loopVars, result>>
    /\ UNCHANGED apiVars

\* lines 509-511, download_s3_to_temp succeeding
DownloadOk ==
    /\ pc = "download"
    /\ arg.exists
    /\ fs' = WithFile(fs, <<"s3dl">>, Attr(1, 0))
    /\ made' = WithFile(made, <<"s3dl">>, Attr(1, 0))
    /\ created_temp' = Append(created_temp, <<"s3dl">>)
    /\ pc' = "mp3"
    /\ UNCHANGED <<env, arg, mp3_path, histVars, stack, loopVars, result, raised>>
    /\ UNCHANGED apiVars

\* lines 120-126: the download fails, its temp file is unlinked, RuntimeError
DownloadFail ==
    /\ pc = "download"
    /\ ~arg.exists
    /\ Raise("input_missing")
    /\ UNCHANGED histVars
    /\ UNCHANGED apiVars

\* convert_to_mp3, lines 151-152
Mp3Missing ==
    /\ pc = "mp3"
    /\ LocalIn \notin DOMAIN fs
    /\ Raise("input_missing")
    /\ UNCHANGED histVars
    /\ UNCHANGED apiVars

\* convert_to_mp3, lines 153-154: an .mp3 is returned as it is
Mp3Same ==
    /\ pc = "mp3"
    /\ LocalIn \in DOMAIN fs
    /\ arg.ext = "mp3"
    /\ mp3_path' = LocalIn
    /\ pc' = "upload"
    /\ UNCHANGED <<env, arg, fs, created_temp, histVars, stack, made, loopVars, result, raised>>
    /\ UNCHANGED apiVars

\* mutant: without the encoder the input is passed on unconverted
Mp3NoFfmpeg_Passthrough ==
    /\ pc = "mp3"
    /\ LocalIn \in DOMAIN fs
    /\ arg.ext # "mp3"
    /\ ~env.ffmpeg
    /\ mp3_path' = LocalIn
    /\ pc' = "upload"
    /\ UNCHANGED <<env, arg, fs, created_temp, histVars, stack, made, loopVars, result, raised>>
    /\ UNCHANGED apiVars

\* convert_to_mp3, lines 155-157
Mp3NoFfmpeg ==
    /\ pc = "mp3"
    /\ LocalIn \in DOMAIN fs
    /\ arg.ext # "mp3"
    /\ ~env.ffmpeg
    /\ Raise("ffmpeg_not_found")
    /\ UNCHANGED histVars
    /\ UNCHANGED apiVars

\* convert_to_mp3, lines 158-165, then lines 515-516
Mp3Convert ==
    /\ pc = "mp3"
    /\ LocalIn \in DOMAIN fs
    /\ arg.ext # "mp3"
    /\ env.ffmpeg
    /\ fs' = WithFile(fs, <<"mp3">>, Attr(1, 0))
    /\ made' = WithFile(made, <<"mp3">>, Attr(1, 0))
    /\ mp3_path' = <<"mp3">>
    /\ created_temp' = Append(created_temp, <<"mp3">>)
    /\ pc' = "upload"
    /\ UNCHANGED <<env, arg, histVars, stack, loopVars, result, raised>>
    /\ UNCHANGED apiVars

\* convert_to_mp3: run_cmd raises (lines 145-147) or no file came out (163-164)
Mp3Failed ==
    /\ pc = "mp3"
    /\ LocalIn \in DOMAIN fs
    /\ arg.ext # "mp3"
    /\ env.ffmpeg
    /\ Raise("convert_failed")
    /\ UNCHANGED histVars
    /\ UNCHANGED apiVars

\* upload_file_to_s3, lines 260-262
UploadNoBucket ==
    /\ pc = "upload"
    /\ ~env.bucket
    /\ Raise("no_bucket")
    /\ UNCHANGED histVars
    /\ UNCHANGED apiVars

\* upload_file_to_s3, lines 270-272
UploadFail ==
    /\ pc = "upload"
    /\ env.bucket
    /\ Raise("upload_failed")
    /\ UNCHANGED histVars
    /\ UNCHANGED apiVars

\* the object of the input bucket written at second ts: lines 519-521,
\* key = "<prefix>/<timestamp>_<filename>"
AudioObject(ts) == <<"input", ts>>

\* S3.upload_file and open(path, "w"): what was at the location is replaced
Put(st, loc, id) == [k \in DOMAIN st \cup {loc} |-> IF k = loc THEN id ELSE st[k]]

\* upload_file_to_s3, lines 266-269, then lines 523-526; the audio belongs
\* to no record yet (0)
UploadOk ==
    /\ pc = "upload"
    /\ env.bucket
    /\ uploads' = uploads + 1
    /\ stored' = Put(stored, AudioObject(now), 0)
    /\ pc' = "uploaded"
    /\ UNCHANGED <<env, arg, fs, created_temp, mp3_path, hosted, chunked, splitCalls,
                   stack, made, loopVars, result, raised>>
    /\ UNCHANGED <<conf, db, response, client, req, now>>

\* mutant: the upload_only flag is ignored and the call goes on to transcribe
ReturnUploadOnly_Transcribes ==
    /\ pc = "uploaded"
    /\ arg.upload_only
    /\ pc' = "fallback"
    /\ UNCHANGED <<env, arg, fs, created_temp, mp3_path, histVars,
                   stack, made, loopVars, result, raised>>
    /\ UNCHANGED apiVars

\* lines 528-529
ReturnUploadOnly ==
    /\ pc = "uploaded"
    /\ arg.upload_only
    /\ Return(Base)
    /\ UNCHANGED histVars
    /\ UNCHANGED apiVars

\* lines 532-539: AssemblyAI is configured and its transcript completed
HostedOk ==
    /\ pc = "uploaded"
    /\ ~arg.upload_only
    /\ env.aai
    /\ hosted' = "ok"
    /\ Return([Base EXCEPT !.kind = "hosted",
                           !.keys = @ \cup {"text", "speakers", "provider_raw"},
                           !.text = <<Text(mp3_path)>>])
    /\ UNCHANGED <<uploads, chunked, splitCalls>>
    /\ UNCHANGED apiVars

\* mutant: the exception of transcribe_with_assemblyai is not caught
HostedFail_Propagates ==
    /\ pc = "uploaded"
    /\ ~arg.upload_only
    /\ env.aai
    /\ hosted' = "failed"
    /\ Raise("hosted_failed")
    /\ UNCHANGED <<uploads, chunked, splitCalls>>
    /\ UNCHANGED apiVars

\* lines 540-541: any exception of transcribe_with_assemblyai is logged
HostedFail ==
    /\ pc = "uploaded"
    /\ ~arg.upload_only
    /\ env.aai
    /\ hosted' = "failed"
    /\ pc' = "fallback"
    /\ UNCHANGED <<env, arg, fs, created_temp, mp3_path, uploads, chunked, splitCalls,
                   stack, made, loopVars, result, raised>>
    /\ UNCHANGED apiVars

\* mutant: the hosted provider is passed over although it is configured
SkipHosted_Unconditional ==
    /\ pc = "uploaded"
    /\ ~arg.upload_only
    /\ pc' = "fallback"
    /\ UNCHANGED <<env, arg, fs, created_temp, mp3_path, histVars,
                   stack, made, loopVars, result, raised>>
    /\ UNCHANGED apiVars

\* line 532 false: AssemblyAI is not configured
SkipHosted ==
    /\ pc = "uploaded"
    /\ ~arg.upload_only
    /\ ~env.aai
    /\ pc' = "fallback"
    /\ UNCHANGED <<env, arg, fs, created_temp, mp3_path, histVars,
                   stack, made, loopVars, result, raised>>
    /\ UNCHANGED apiVars

\* mutant: with no fallback configured the call fails instead of returning base
ReturnNoFallback_Raises ==
    /\ pc = "fallback"
    /\ ~env.use_openai
    /\ Raise("no_provider")
    /\ UNCHANGED histVars
    /\ UNCHANGED apiVars

\* lines 544-546
ReturnNoFallback ==
    /\ pc = "fallback"
    /\ ~env.use_openai
    /\ Return(Base)
    /\ UNCHANGED histVars
    /\ UNCHANGED apiVars

\* convert_to_wav_for_transcription, lines 173-175
WavNoFfmpeg ==
    /\ pc = "fallback"
    /\ env.use_openai
    /\ ~env.ffmpeg
    /\ chunked' = TRUE
    /\ Raise("ffmpeg_not_found")
    /\ UNCHANGED <<uploads, hosted, splitCalls>>
    /\ UNCHANGED apiVars

\* mutant: a failed WAV conversion takes the uploaded audio back out
WavFailed_RemovesUpload ==
    /\ pc = "fallback"
    /\ env.use_openai
    /\ env.ffmpeg
    /\ chunked' = TRUE
    /\ Raise("convert_failed")
    /\ stored' = NoObjects
    /\ UNCHANGED <<uploads, hosted, splitCalls>>
    /\ UNCHANGED <<conf, db, response, client, req, now>>

\* convert_to_wav_for_transcription: run_cmd raises or no file came out
WavFailed ==
    /\ pc = "fallback"
    /\ env.use_openai
    /\ env.ffmpeg
    /\ chunked' = TRUE
    /\ Raise("convert_failed")
    /\ UNCHANGED <<uploads, hosted, splitCalls>>
    /\ UNCHANGED apiVars

\* mutant: a WAV of exactly the limit is sent to the splitter
OverLimit_Inclusive(wav_size) == wav_size >= PROVIDER_MAX_BYTES

\* line 557: wav_size > PROVIDER_MAX_BYTES
OverLimit(wav_size) == wav_size > PROVIDER_MAX_BYTES

\* lines 549-560: the WAV is made; over the limit it goes to the splitter
WavConvert ==
    /\ pc = "fallback"
    /\ env.use_openai
    /\ env.ffmpeg
    /\ \E size \in 1..MaxSize, dur \in Durations :
         /\ fs' = WithFile(fs, <<"wav">>, Attr(size, dur))
         /\ made' = WithFile(made, <<"wav">>, Attr(size, dur))
         /\ IF OverLimit(size)
              THEN /\ stack' = <<Frame(<<"wav">>, PROVIDER_MAX_BYTES)>>
                   /\ splitCalls' = splitCalls + 1
                   /\ pc' = "split"
                   /\ UNCHANGED chunk_paths
              ELSE /\ chunk_paths' = <<(<<"wav">>)>>
                   /\ pc' = "loop"
                   /\ UNCHANGED <<stack, splitCalls>>
    /\ created_temp' = Append(created_temp, <<"wav">>)
    /\ chunked' = TRUE
    /\ UNCHANGED <<env, arg, mp3_path, uploads, hosted, submitted, failedIdx,
                   combined_texts, provider_raw_list, result, raised>>
    /\ UNCHANGED apiVars

\* ---------------------------------------------------- split_wav_to_chunks
\* split_wav_to_chunks(wav_path, max_bytes) called on its own
CallSplit ==
    /\ pc = "idle"
    /\ \E exists \in BOOLEAN, size \in 1..MaxSize, dur \in Durations, max_bytes \in 1..MaxSize :
         /\ arg' = [fn |-> "split_wav_to_chunks", s3 |-> FALSE, ext |-> "wav",
                    exists |-> exists, upload_only |-> FALSE, max_bytes |-> max_bytes]
         /\ fs' = IF exists THEN WithFile(NoFiles, <<"wav">>, Attr(size, dur)) ELSE NoFiles
         /\ stack' = <<Frame(<<"wav">>, max_bytes)>>
    /\ \E ffmpeg \in BOOLEAN : env' = [NoEnv EXCEPT !.ffmpeg = ffmpeg]
    /\ splitCalls' = splitCalls + 1
    /\ pc' = "split"
    /\ UNCHANGED <<created_temp, mp3_path, uploads, hosted, chunked, made,
                   loopVars, result, raised>>
    /\ UNCHANGED apiVars

Top == stack[Len(stack)]
ChunkFiles(f) == {q \in DOMAIN f : Len(q) >= 2}

\* an exception leaves split_wav_to_chunks: inside transcribe_audio it is
\* caught at line 579, a direct caller receives it
SplitError(cause) ==
    IF arg.fn = "transcribe_audio"
    THEN Raise(cause)
    ELSE /\ pc' = "raised"
         /\ raised' = cause
         /\ UNCHANGED <<env, arg, fs, created_temp, mp3_path, stack, made, loopVars, result>>

\* `return val` of the innermost call: the outermost call hands val to its
\* caller; an inner one returns into line 232 of its caller, which extends
\* final_chunks, unlinks the chunk it passed down (233-236) and moves on
SplitReturns(val) ==
    IF Len(stack) = 1
    THEN /\ stack' = <<>>
         /\ chunk_paths' = val
         /\ pc' = IF arg.fn = "transcribe_audio" THEN "loop" ELSE "done"
         /\ UNCHANGED fs
    ELSE LET parent == stack[Len(stack) - 1]
             ch == parent.chunks[parent.i]
         IN  /\ stack' = Append(SubSeq(stack, 1, Len(stack) - 2),
                                [parent EXCEPT !.final = @ \o val, !.i = @ + 1])
             /\ fs' = Unlinked(fs, {ch})
             /\ UNCHANGED <<chunk_paths, pc>>

splitFrame == <<env, arg, created_temp, mp3_path, histVars, made, submitted, failedIdx,
                combined_texts, provider_raw_list, result, raised>>

\* lines 205-206
SplitMissing ==
    /\ pc = "split"
    /\ Top.phase = "enter"
    /\ Top.path \notin DOMAIN fs
    /\ SplitError("wav_missing")
    /\ UNCHANGED histVars
    /\ UNCHANGED apiVars

\* lines 207-217: at or under the limit, or the target duration covers the file
SplitWhole ==
    /\ pc = "split"
    /\ Top.phase = "enter"
    /\ Top.path \in DOMAIN fs
    /\ ReturnsWhole(fs[Top.path].size, fs[Top.path].dur, Top.max_bytes)
    /\ SplitReturns(<<Top.path>>)
    /\ UNCHANGED splitFrame
    /\ UNCHANGED apiVars

\* lines 218-220
SplitNoFfmpeg ==
    /\ pc = "split"
    /\ Top.phase = "enter"
    /\ Top.path \in DOMAIN fs
    /\ ~ReturnsWhole(fs[Top.path].size, fs[Top.path].dur, Top.max_bytes)
    /\ ~env.ffmpeg
    /\ SplitError("ffmpeg_not_found")
    /\ UNCHANGED histVars
    /\ UNCHANGED apiVars

\* line 225: run_cmd raises
SplitSegmentFailed ==
    /\ pc = "split"
    /\ Top.phase = "enter"
    /\ Top.path \in DOMAIN fs
    /\ ~ReturnsWhole(fs[Top.path].size, fs[Top.path].dur, Top.max_bytes)
    /\ env.ffmpeg
    /\ SplitError("split_failed")
    /\ UNCHANGED histVars
    /\ UNCHANGED apiVars

\* lines 221-227: ffmpeg writes n segment files with the sizes and measured
\* durations a; the glob is sorted by name
WriteSegments(n, a) ==
    LET new == {Append(Top.path, k) : k \in 0..(n - 1)}
        put(f) == [q \in DOMAIN f \cup new |-> IF q \in new THEN a[q[Len(q)]] ELSE f[q]]
    IN  /\ fs' = put(fs)
        /\ made' = put(made)
        /\ stack' = [stack EXCEPT ![Len(stack)] =
                       [@ EXCEPT !.phase = "loop",
                                 !.chunks = SortedByName(Top.path,
                                                GlobChunks(put(fs), Top.path))]]

CanSegment ==
    /\ pc = "split"
    /\ Top.phase = "enter"
    /\ Top.path \in DOMAIN fs
    /\ ~ReturnsWhole(fs[Top.path].size, fs[Top.path].dur, Top.max_bytes)
    /\ env.ffmpeg

\* each segment is no larger than its source and has any measured duration
SplitSegment ==
    /\ CanSegment
    /\ \E n \in 0..MaxChunks :
         /\ Cardinality(ChunkFiles(made)) + n <= MaxChunkFiles
         /\ \E a \in [0..(n - 1) -> [size : 1..fs[Top.path].size, dur : Durations]] :
              WriteSegments(n, a)
    /\ UNCHANGED <<env, arg, pc, created_temp, mp3_path, histVars, loopVars, result, raised>>
    /\ UNCHANGED apiVars

InLoop == pc = "split" /\ Top.phase = "loop" /\ Top.i <= Len(Top.chunks)

\* lines 237-238
SplitKeep ==
    /\ InLoop
    /\ fs[Top.chunks[Top.i]].size <= Top.max_bytes
    /\ stack' = [stack EXCEPT ![Len(stack)] =
                   [@ EXCEPT !.final = Append(@, Top.chunks[Top.i]), !.i = @ + 1]]
    /\ UNCHANGED <<env, arg, pc, fs, created_temp, mp3_path, histVars, made, loopVars,
                   result, raised>>
    /\ UNCHANGED apiVars

\* lines 230-232: the chunk is split again, alone, with half the budget
SplitRecurse ==
    /\ InLoop
    /\ fs[Top.chunks[Top.i]].size > Top.max_bytes
    /\ Len(stack) < MaxDepth
    /\ stack' = Append(stack, Frame(Top.chunks[Top.i], Top.max_bytes \div 2))
    /\ UNCHANGED <<env, arg, pc, fs, created_temp, mp3_path, histVars, made, loopVars,
                   result, raised>>
    /\ UNCHANGED apiVars

\* line 232 with the interpreter's call stack used up: RecursionError
SplitTooDeep ==
    /\ InLoop
    /\ fs[Top.chunks[Top.i]].size > Top.max_bytes
    /\ Len(stack) >= MaxDepth
    /\ SplitError("RecursionError")
    /\ UNCHANGED histVars
    /\ UNCHANGED apiVars

\* lines 239-241
SplitDone ==
    /\ pc = "split"
    /\ Top.phase = "loop"
    /\ Top.i > Len(Top.chunks)
    /\ SplitReturns(IF Top.final = <<>> THEN <<Top.path>> ELSE Top.final)
    /\ UNCHANGED splitFrame
    /\ UNCHANGED apiVars

\* ------------------------------------------- the chunk loop, lines 562-577
LoopIdx == Len(combined_texts) + 1

\* mutant: a segment whose transcription raised is handed in once more
TranscribeChunkFail_Resubmits ==
    /\ pc = "loop"
    /\ LoopIdx <= Len(chunk_paths)
    /\ combined_texts' = Append(combined_texts, Placeholder)
    /\ provider_raw_list' = Append(provider_raw_list, [kind |-> "chunk_error", seg |-> NoPath])
    /\ submitted' = submitted \o <<chunk_paths[LoopIdx], chunk_paths[LoopIdx]>>
    /\ failedIdx' = failedIdx \cup {LoopIdx}
    /\ UNCHANGED <<env, arg, pc, fs, created_temp, mp3_path, histVars, stack, made,
                   chunk_paths, result, raised>>
    /\ UNCHANGED apiVars

\* transcribe_with_openai_chunk returns: lines 566-568
TranscribeChunkOk ==
    /\ pc = "loop"
    /\ LoopIdx <= Len(chunk_paths)
    /\ chunk_paths[LoopIdx] \in DOMAIN fs
    /\ \E t \in {Text(chunk_paths[LoopIdx]), EmptyText} :
         combined_texts' = Append(combined_texts, t)
    /\ provider_raw_list' = Append(provider_raw_list, [kind |-> "raw", seg |-> chunk_paths[LoopIdx]])
    /\ submitted' = Append(submitted, chunk_paths[LoopIdx])
    /\ UNCHANGED <<env, arg, pc, fs, created_temp, mp3_path, histVars, stack, made,
                   chunk_paths, failedIdx, result, raised>>
    /\ UNCHANGED apiVars

\* mutant: the segment's exception is not caught in the loop
TranscribeChunkFail_Propagates ==
    /\ pc = "loop"
    /\ LoopIdx <= Len(chunk_paths)
    /\ Raise("chunk_failed")
    /\ UNCHANGED histVars
    /\ UNCHANGED apiVars

\* mutant: a failed segment leaves the marker but no diagnostic entry
TranscribeChunkFail_NoDiagnostic ==
    /\ pc = "loop"
    /\ LoopIdx <= Len(chunk_paths)
    /\ combined_texts' = Append(combined_texts, Placeholder)
    /\ submitted' = Append(submitted, chunk_paths[LoopIdx])
    /\ failedIdx' = failedIdx \cup {LoopIdx}
    /\ UNCHANGED <<env, arg, pc, fs, created_temp, mp3_path, histVars, stack, made,
                   chunk_paths, provider_raw_list, result, raised>>
    /\ UNCHANGED apiVars

\* transcribe_with_openai_chunk raises (no client, unreadable file, provider
\* error on both attempts): lines 569-572
TranscribeChunkFail ==
    /\ pc = "loop"
    /\ LoopIdx <= Len(chunk_paths)
    /\ combined_texts' = Append(combined_texts, Placeholder)
    /\ provider_raw_list' = Append(provider_raw_list, [kind |-> "chunk_error", seg |-> NoPath])
    /\ submitted' = Append(submitted, chunk_paths[LoopIdx])
    /\ failedIdx' = failedIdx \cup {LoopIdx}
    /\ UNCHANGED <<env, arg, pc, fs, created_temp, mp3_path, histVars, stack, made,
                   chunk_paths, result, raised>>
    /\ UNCHANGED apiVars

\* mutant: a call whose segments all failed raises instead of returning
Finish_RaisesIfAllFailed ==
    /\ pc = "loop"
    /\ LoopIdx > Len(chunk_paths)
    /\ IF failedIdx = 1..Len(chunk_paths)
         THEN Raise("all_chunks_failed")
         ELSE Return([Base EXCEPT !.kind = "chunked",
                                  !.keys = @ \cup {"text", "speakers", "provider_raw"},
                                  !.text = JoinedText(combined_texts),
                                  !.provider_raw = provider_raw_list])
    /\ UNCHANGED histVars
    /\ UNCHANGED apiVars

\* lines 574-577
Finish ==
    /\ pc = "loop"
    /\ LoopIdx > Len(chunk_paths)
    /\ Return([Base EXCEPT !.kind = "chunked",
                           !.keys = @ \cup {"text", "speakers", "provider_raw"},
                           !.text = JoinedText(combined_texts),
                           !.provider_raw = provider_raw_list])
    /\ UNCHANGED histVars
    /\ UNCHANGED apiVars

Next ==
    \/ CallTranscribe \/ CallEmpty \/ DownloadOk \/ DownloadFail
    \/ Mp3Missing \/ Mp3Same \/ Mp3NoFfmpeg \/ Mp3Convert \/ Mp3Failed
    \/ UploadNoBucket \/ UploadFail \/ UploadOk
    \/ ReturnUploadOnly \/ HostedOk \/ HostedFail \/ SkipHosted
    \/ ReturnNoFallback \/ WavNoFfmpeg \/ WavFailed \/ WavConvert
    \/ CallSplit \/ SplitMissing \/ SplitWhole \/ SplitNoFfmpeg \/ SplitSegmentFailed
    \/ SplitSegment \/ SplitKeep \/ SplitRecurse \/ SplitTooDeep \/ SplitDone
    \/ TranscribeChunkOk \/ TranscribeChunkFail \/ Finish

Spec == Init /\ [][Next]_vars

\* ------------------------------------------------------------ properties
InTranscribe == arg.fn = "transcribe_audio"
InSplit == arg.fn = "split_wav_to_chunks"
Exited == pc \in {"done", "raised"}

\* the byte size of a file of this call, also after it was unlinked
SizeOf(p) == IF p \in DOMAIN fs THEN fs[p].size ELSE made[p].size

\* the outermost split_wav_to_chunks call has returned chunk_paths
SplitReturned == splitCalls > 0 /\ stack = <<>> /\ pc \in {"loop", "done"}

\* C1: when transcribe_audio has finished, by returning or by raising, no
\* temporary file it created (download temp, converted MP3, WAV, any chunk
\* file of the splitter) exists any more.
C1_TempFilesDeleted ==
    (InTranscribe /\ Exited) => DOMAIN made \cap DOMAIN fs = {}

\* C2: for an input over max_bytes, every segment split_wav_to_chunks returns
\* has a byte size of at most max_bytes.
C2_SegmentsWithinLimit ==
    (SplitReturned /\ SizeOf(<<"wav">>) > arg.max_bytes)
        => \A i \in 1..Len(chunk_paths) : SizeOf(chunk_paths[i]) <= arg.max_bytes

\* the number of non-empty texts among the first i segments: the line of
\* the combined text that segment i's text lands on
LineOf(i) == Cardinality({j \in 1..i : Truthy(combined_texts[j])})

\* C3: in the chunked path a segment's transcription failure is caught: the
\* call never leaves the chunk loop by raising, every segment is submitted,
\* and the combined text holds the placeholder on the failed segment's line,
\* between the texts of the segments before and after it.
C3_Slots ==
    (InTranscribe /\ pc = "done" /\ result.kind = "chunked") =>
        /\ submitted = chunk_paths
        /\ Len(combined_texts) = Len(chunk_paths)
        /\ Len(result.text) = LineOf(Len(chunk_paths))
        /\ \A i \in 1..Len(chunk_paths) :
             /\ i \in failedIdx => result.text[LineOf(i)] = Placeholder
             /\ (i \notin failedIdx /\ Truthy(combined_texts[i]))
                    => result.text[LineOf(i)] = Text(chunk_paths[i])
\* C3 (whole claim): the slots above in every state, and no step from the
\* chunk loop leads anywhere but on in the loop or to the normal return.
C3_FailureContained ==
    /\ []C3_Slots
    /\ [][pc = "loop" => pc' \in {"loop", "done"}]_vars

\* a call that finished with a failed segment followed by a transcribed one
C3_Witness ==
    /\ InTranscribe /\ pc = "done" /\ result.kind = "chunked"
    /\ \E i \in failedIdx : \E j \in (i + 1)..Len(chunk_paths) :
         j \notin failedIdx /\ Truthy(combined_texts[j])

\* ------------------------------------------ a long recording, many segments
\* the first segment count whose last index needs more digits than "%03d" pads
ManyChunks == 10 ^ PAD_WIDTH + 1
SegmentCounts == (1..12) \cup {ManyChunks}

\* split_wav_to_chunks called on a long WAV over the limit, ffmpeg at hand
CallSplitLong ==
    /\ pc = "idle"
    /\ \E max_bytes \in 1..(MaxSize - 1) :
         /\ arg' = [fn |-> "split_wav_to_chunks", s3 |-> FALSE, ext |-> "wav",
                    exists |-> TRUE, upload_only |-> FALSE, max_bytes |-> max_bytes]
         /\ fs' = WithFile(NoFiles, <<"wav">>, Attr(MaxSize, 12000))
         /\ stack' = <<Frame(<<"wav">>, max_bytes)>>
    /\ env' = [NoEnv EXCEPT !.ffmpeg = TRUE]
    /\ splitCalls' = splitCalls + 1
    /\ pc' = "split"
    /\ UNCHANGED <<created_temp, mp3_path, uploads, hosted, chunked, made,
                   loopVars, result, raised>>
    /\ UNCHANGED apiVars

\* ffmpeg writes many equal segments, each within the limit
SplitSegmentMany ==
    /\ CanSegment
    /\ \E n \in SegmentCounts : WriteSegments(n, [k \in 0..(n - 1) |-> Attr(1, 4000)])
    /\ UNCHANGED <<env, arg, pc, created_temp, mp3_path, histVars, loopVars, result, raised>>
    /\ UNCHANGED apiVars

NextLong == CallSplitLong \/ SplitSegmentMany \/ SplitKeep \/ SplitDone

LongSpec == Init /\ [][NextLong]_vars

\* p is earlier in the recording than q: segment indexes count time
RECURSIVE Earlier(_, _)
Earlier(p, q) ==
    IF p = <<>> \/ q = <<>> THEN FALSE
    ELSE IF Head(p) = Head(q) THEN Earlier(Tail(p), Tail(q))
    ELSE Head(p) < Head(q)

Chronological(paths) ==
    \A i \in 1..(Len(paths) - 1) : Earlier(Tail(paths[i]), Tail(paths[i + 1]))

\* C4: the segments are taken, and so their transcripts are combined, in the
\* chronological order of the source audio, for any number of segments: the
\* sorted list of chunk files each split works through and the list the
\* splitter returns to the chunk loop are both in time order.
C4_ChronologicalOrder ==
    /\ \A d \in 1..Len(stack) : Chronological(stack[d].chunks)
    /\ SplitReturned => Chronological(chunk_paths)

\* C5: an input at or under the limit is not split.  split_wav_to_chunks
\* returns exactly the input path, writes and removes nothing; and
\* transcribe_audio takes a WAV at or under PROVIDER_MAX_BYTES as its single
\* segment without calling the splitter.
C5_NoSplitAtOrUnderLimit ==
    /\ (InSplit /\ pc = "done" /\ fs[<<"wav">>].size <= arg.max_bytes) =>
          /\ chunk_paths = <<(<<"wav">>)>>
          /\ DOMAIN fs = {<<"wav">>}
          /\ made = NoFiles
    /\ (InTranscribe /\ <<"wav">> \in DOMAIN made
          /\ made[<<"wav">>].size <= PROVIDER_MAX_BYTES) =>
          /\ splitCalls = 0
          /\ stack = <<>>
          /\ pc \in {"loop", "done"} => chunk_paths = <<(<<"wav">>)>>
          /\ submitted \in {<<>>, <<(<<"wav">>)>>}

\* a WAV of exactly the limit, transcribed as one segment
C5_Witness ==
    /\ InTranscribe /\ pc = "done" /\ result.kind = "chunked"
    /\ made[<<"wav">>].size = PROVIDER_MAX_BYTES
    /\ submitted = <<(<<"wav">>)>>

NoProvider == InTranscribe /\ ~arg.upload_only /\ ~env.aai /\ ~env.use_openai
BaseOnly(r) == r.keys = {"s3_uri", "file_size"} /\ r.s3_uri = S3_URI /\ r.text = <<>>
SetupErrors == {"input_missing", "ffmpeg_not_found", "convert_failed", "no_bucket",
                "upload_failed"}

\* C6 as stated: with no speech-to-text provider configured,
\* transcribe_audio(upload_only=False) never raises.
C6_NeverRaises == NoProvider => pc # "raised"

\* C6 amended: with no provider configured no provider is invoked; once
\* the audio is stored the call returns the storage location and byte size
\* only and does not raise; it raises only when the download, the MP3
\* conversion or the upload fails, before anything is stored.
C6_UploadOnlyResult ==
    NoProvider =>
        /\ hosted = "none" /\ ~chunked /\ submitted = <<>>
        /\ pc = "done" => BaseOnly(result) /\ uploads = 1
        /\ pc = "raised" => raised \in SetupErrors /\ uploads = 0 /\ result = NoResult

C6_Witness == NoProvider /\ pc = "done" /\ arg.ext # "mp3"

\* C7: when AssemblyAI is configured it is tried first; the chunked path is
\* entered only if AssemblyAI is not configured or its attempt failed; when
\* it succeeds its result is returned and the chunked path is never invoked.
C7_ProviderOrder ==
    InTranscribe =>
        /\ hosted # "none" => env.aai /\ ~arg.upload_only /\ uploads = 1
        /\ (env.aai /\ ~arg.upload_only /\ pc \in {"fallback", "split", "loop"})
              => hosted = "failed"
        /\ chunked => ~arg.upload_only /\ env.use_openai
                      /\ (~env.aai \/ hosted = "failed")
        /\ hosted = "ok" => /\ pc = "done" /\ result.kind = "hosted"
                            /\ ~chunked /\ splitCalls = 0 /\ submitted = <<>>
        /\ (pc = "done" /\ result.kind = "chunked") => chunked

C7_Witness ==
    InTranscribe /\ hosted = "failed" /\ pc = "done" /\ result.kind = "chunked"

\* C8: when the hosted provider fails and no fallback is configured the
\* call returns the upload-only result instead of raising; when a fallback
\* is configured the call goes on to the chunked path, and an error it ends
\* with is one of that path, never the hosted provider's failure.
C8_HostedFailure ==
    (InTranscribe /\ hosted = "failed") =>
        /\ raised # "hosted_failed"
        /\ ~env.use_openai => pc \in {"fallback", "done"}
        /\ (~env.use_openai /\ pc = "done") => BaseOnly(result) /\ ~chunked
        /\ (env.use_openai /\ Exited) => chunked
        /\ (env.use_openai /\ pc = "raised") =>
              raised \in {"ffmpeg_not_found", "convert_failed", "split_failed",
                          "RecursionError"}

C8_Witness ==
    InTranscribe /\ hosted = "failed" /\ ~env.use_openai /\ pc = "done"

\* C9 as stated: whenever ffmpeg cannot be found or the input file does not
\* exist transcribe_audio raises and returns nothing, for every input type,
\* mode and provider configuration.
C9_AlwaysFatal ==
    (InTranscribe /\ Exited /\ (~env.ffmpeg \/ ~arg.exists)) =>
        pc = "raised" /\ result = NoResult

\* C9 amended: a missing input file is always fatal.  A missing encoder is
\* fatal whenever the encoder is needed: the input is not an .mp3, or the
\* call reaches the chunked path, whose WAV conversion needs it.  An .mp3
\* input is uploaded, and transcribed by the hosted provider, without it.
C9_FatalWhenNeeded ==
    (InTranscribe /\ Exited) =>
        /\ ~arg.exists => pc = "raised" /\ raised = "input_missing" /\ result = NoResult
        /\ (~env.ffmpeg /\ (arg.ext # "mp3" \/ chunked)) => pc = "raised" /\ result = NoResult
        /\ (~env.ffmpeg /\ arg.exists /\ arg.ext # "mp3") => raised = "ffmpeg_not_found"
        /\ (~env.ffmpeg /\ chunked) => raised = "ffmpeg_not_found"
        /\ (~env.ffmpeg /\ pc = "done") => arg.ext = "mp3" /\ result.kind # "chunked"

\* the encoder is missed only at the WAV conversion of an .mp3 input
C9_Witness ==
    /\ InTranscribe /\ pc = "raised" /\ raised = "ffmpeg_not_found"
    /\ arg.ext = "mp3" /\ chunked

\* the call of frame d is handed the situation its caller was in: the same
\* budget and a file of the same size and measured duration, so the steps
\* that led to it follow again
RepeatsCaller(d) ==
    /\ stack[d].max_bytes = stack[d - 1].max_bytes
    /\ stack[d].path \in DOMAIN fs /\ stack[d - 1].path \in DOMAIN fs
    /\ fs[stack[d].path] = fs[stack[d - 1].path]

\* C10: split_wav_to_chunks terminates on every input: halving the budget
\* makes every recursive call differ from its caller's, so the recursion
\* reaches a level that returns and never repeats itself.
C10_RecursionReturns == \A d \in 2..Len(stack) : ~RepeatsCaller(d)

\* the outermost split ran ffmpeg: segment files of the input were written
WasSegmented == GlobChunks(made, <<"wav">>) # {}

\* C11: for an input over the limit the target segment duration is
\* max(5, floor(duration * max_bytes / file_size)) whole seconds, 300 s for a
\* 600-second file of twice the limit, and every input over the limit is
\* split into segments, never returned whole.
C11_OverLimitIsSplit ==
    /\ \A m \in 1..MaxSize : TargetSeconds(2 * m, 600000, m) = 300
    /\ (SplitReturned /\ SizeOf(<<"wav">>) > arg.max_bytes) =>
          WasSegmented /\ chunk_paths # <<(<<"wav">>)>>

\* the errors the model's transcribe_audio raises for the classes the spec
\* calls fatal: missing encoder, missing input file, misconfigured bucket
FatalSetup == {"ffmpeg_not_found", "input_missing", "no_bucket"}

\* every cause transcribe_audio re-raises at line 581
PreparationErrors == SetupErrors \cup {"ValueError", "split_failed", "RecursionError"}

ProviderFailed == hosted = "failed" \/ failedIdx # {}

\* C12 as stated: transcribe_audio raises only for a missing encoder, a
\* missing input file or a misconfigured bucket; after any other failure the
\* caller receives a normal result, with text and per-segment diagnostics
\* when segments failed.
C12_RaisesOnlyFatalSetup ==
    InTranscribe =>
        /\ pc = "raised" => raised \in FatalSetup
        /\ (Exited /\ ProviderFailed /\ raised \notin FatalSetup) => pc = "done"
        /\ (Exited /\ failedIdx # {}) => {"text", "provider_raw"} \subseteq result.keys

\* C12 amended: transcribe_audio raises only when preparing the audio
\* fails (no audio file named, download or input missing, encoder missing or failing at the MP3
\* or WAV conversion or at the split, a split that exhausts the call stack,
\* bucket unset, upload failing), and then before any segment is submitted.
\* A provider failure by itself never raises: a hosted failure with no
\* fallback returns the upload-only result, and any or all segments failing
\* returns text and one diagnostic entry per segment.
C12_RaisesOnlyInPreparation ==
    ~InSplit =>
        /\ pc = "raised" =>
              /\ raised \in PreparationErrors
              /\ result = NoResult
              /\ submitted = <<>> /\ failedIdx = {}
              /\ uploads = 0 => raised \in SetupErrors \cup {"ValueError"}
              /\ uploads = 1 =>
                    /\ chunked
                    /\ raised \in {"ffmpeg_not_found", "convert_failed", "split_failed",
                                   "RecursionError"}
        /\ (Exited /\ failedIdx # {}) =>
              /\ pc = "done" /\ result.kind = "chunked"
              /\ {"text", "provider_raw"} \subseteq result.keys
              /\ Len(result.provider_raw) = Len(chunk_paths)
        /\ (Exited /\ hosted = "failed" /\ ~chunked) => pc = "done" /\ BaseOnly(result)

\* the hosted provider failed and then every one of several segments failed
C12_Witness ==
    /\ InTranscribe /\ pc = "done" /\ hosted = "failed"
    /\ Len(chunk_paths) >= 2 /\ failedIdx = 1..Len(chunk_paths)

\* the raw provider reply for segment ch, and the descriptor of a failure
RawReply(ch) == [kind |-> "raw", seg |-> ch]
IsErrorDescriptor(r) == r.kind = "chunk_error"

Completed == Len(combined_texts)

\* C17 (state part): the segments handed to the provider so far are the
\* first segments of the list, in list order, each once, and every one of
\* them has completed, by returning or by failing, before the next is
\* handed in; when the call returns every segment was handed in once.
C17_InOrderOnce ==
    InTranscribe =>
        /\ Len(submitted) <= Len(chunk_paths)
        /\ submitted = SubSeq(chunk_paths, 1, Len(submitted))
        /\ Completed = Len(submitted)
        /\ \A i, j \in 1..Len(submitted) : submitted[i] = submitted[j] => i = j
        /\ (pc = "done" /\ result.kind = "chunked") => submitted = chunk_paths

\* C17: segments are transcribed one at a time in list order, each exactly
\* once: the state part in every state, and every step that hands in a
\* segment hands in exactly the next one of the list, after the calls for
\* all earlier ones have completed.
C17_Sequential ==
    /\ []C17_InOrderOnce
    /\ [][submitted' # submitted =>
            /\ Completed = Len(submitted)
            /\ submitted' = Append(submitted, chunk_paths[Len(submitted) + 1])
            /\ chunk_paths' = chunk_paths]_vars

\* two segments handed in, the first of which failed
C17_Witness ==
    /\ InTranscribe /\ pc = "done"
    /\ Len(submitted) = 2 /\ failedIdx = {1}

\* C19: with upload_only=True transcribe_audio stores the audio and returns
\* exactly its storage URI and byte size; no provider is invoked, neither
\* the hosted one nor the chunked path, and no WAV or segment is created.
C19_UploadOnly ==
    (InTranscribe /\ arg.upload_only) =>
        /\ hosted = "none" /\ ~chunked /\ splitCalls = 0 /\ submitted = <<>>
        /\ <<"wav">> \notin DOMAIN made /\ ChunkFiles(made) = {}
        /\ uploads <= 1
        /\ pc = "done" =>
              /\ uploads = 1
              /\ result.kind = "base"
              /\ result.keys = {"s3_uri", "file_size"}
              /\ result.s3_uri = S3_URI
              /\ result.file_size = SizeOf(mp3_path)

\* an upload-only call on an S3 object that had to be converted first
C19_Witness ==
    /\ InTranscribe /\ arg.upload_only /\ pc = "done"
    /\ arg.s3 /\ mp3_path = <<"mp3">> /\ env.aai /\ env.use_openai

\* ----------------------------------------- the combined text, line 574
\* Here a text is a string: a sequence of characters.
NL == "\n"
SP == " "
Alphabet == {"a", SP, NL}
Whitespace == {SP, NL}          \* what str.strip() removes
TextLengths == {0, 1, 2}
Strings == UNION {[1..n -> Alphabet] : n \in TextLengths}
TextLists == UNION {[1..n -> Strings] : n \in 0..MaxChunkFiles}

\* sep.join(list)
RECURSIVE JoinStr(_, _)
JoinStr(sep, list) ==
    IF list = <<>> THEN <<>>
    ELSE IF Len(list) = 1 THEN list[1]
    ELSE list[1] \o sep \o JoinStr(sep, Tail(list))

RECURSIVE LStrip(_)
LStrip(s) == IF s # <<>> /\ Head(s) \in Whitespace THEN LStrip(Tail(s)) ELSE s

RECURSIVE RStrip(_)
RStrip(s) ==
    IF s # <<>> /\ s[Len(s)] \in Whitespace THEN RStrip(SubSeq(s, 1, Len(s) - 1)) ELSE s

\* str.strip()
Strip(s) == RStrip(LStrip(s))

\* `if t` on a str
NonEmpty(t) == t # <<>>

\* mutant: the texts are joined without dropping the empty ones
FinalText_NoFilter(texts) == Strip(JoinStr(<<NL>>, texts))

\* "\n".join([t for t in combined_texts if t]).strip()
FinalText(texts) == Strip(JoinStr(<<NL>>, SelectSeq(texts, NonEmpty)))

\* the chunk loop has ended with these texts in combined_texts
InitJoin ==
    /\ ApiIdle
    /\ pc = "join"
    /\ combined_texts \in TextLists
    /\ env = NoEnv /\ arg = NoArg /\ fs = NoFiles /\ created_temp = <<>>
    /\ mp3_path = NoPath /\ uploads = 0 /\ hosted = "none" /\ chunked = FALSE
    /\ splitCalls = 0 /\ stack = <<>> /\ made = NoFiles /\ chunk_paths = <<>>
    /\ submitted = <<>> /\ failedIdx = {} /\ provider_raw_list = <<>>
    /\ result = NoResult /\ raised = "none"

\* lines 574-575
JoinTexts ==
    /\ pc = "join"
    /\ result' = [NoResult EXCEPT !.kind = "chunked", !.keys = {"text"},
                                  !.text = FinalText(combined_texts)]
    /\ pc' = "done"
    /\ UNCHANGED <<env, arg, fs, created_temp, mp3_path, histVars, stack, made,
                   loopVars, raised>>
    /\ UNCHANGED apiVars

NextJoin == JoinTexts

JoinSpec == InitJoin /\ [][NextJoin]_vars

\* the first i texts laid out as the claim describes: a non-empty text is
\* put after a single newline unless it is the first non-empty one, an
\* empty text adds nothing
RECURSIVE LaidOut(_, _)
LaidOut(texts, i) ==
    IF i = 0 THEN <<>>
    ELSE LET before == LaidOut(texts, i - 1)
             t == texts[i]
         IN  IF t = <<>> THEN before
             ELSE IF \A j \in 1..(i - 1) : texts[j] = <<>> THEN t
             ELSE before \o <<NL>> \o t

\* out is u without its leading and trailing whitespace
IsTrimOf(out, u) ==
    \E i, j \in 0..Len(u) :
        /\ i <= j
        /\ out = SubSeq(u, i + 1, j)
        /\ \A k \in 1..i : u[k] \in Whitespace
        /\ \A k \in (j + 1)..Len(u) : u[k] \in Whitespace
        /\ out # <<>> => out[1] \notin Whitespace /\ out[Len(out)] \notin Whitespace

\* C20: the combined text of the chunked path is the non-empty segment
\* texts joined by single newlines in segment order, stripped of leading
\* and trailing whitespace; an empty segment text contributes no separator
\* and no blank line.
C20_CombinedText ==
    (pc = "done" /\ result.keys = {"text"}) =>
        IsTrimOf(result.text, LaidOut(combined_texts, Len(combined_texts)))

\* an empty text between two texts that carry whitespace at the outer ends
C20_Witness ==
    /\ pc = "done"
    /\ combined_texts = << <<SP, "a">>, <<>>, <<"a", NL>> >>
    /\ result.text = <<"a", NL, "a">>

\* ------------------------------------------------ main.py: the handlers
\* Every handler is an `async def` that awaits nothing once it has read its
\* input, so a request is handled from start to end before the next one.
\* The handlers are followed in the table and in their responses; the audio
\* object transcribe_audio leaves is followed in Spec, the files and objects
\* of save_transcript_and_summary in SaveSpec.
FILENAME == "meeting.mp3"
UploadedTo == "Uploaded to s3://input/audio.mp3"    \* main.py lines 153, 401
NoTranscriptSummary == "No transcript available to summarize."
TranscriptKey == "s3://output/outputs/Transcripts/ts.txt"
SummaryKey == "s3://output/outputs/Summary/ts.md"

\* initialize_openai_client, services.py lines 80-91: the handles it can
\* leave in services.client; without a key, or when OpenAI() raises, None
InitOutcomes(c) == IF c.key THEN {"ready", Null} ELSE {Null}

\* Transcription(filename=..., transcript=..., speakers=...)
Row(filename, transcript) ==
    [filename |-> filename, transcript |-> transcript, speakers |-> "[]",
     summary |-> Null, created_at |-> now]

\* db.add, db.commit: the new row takes the next integer id
NewId == IF DOMAIN db = {} THEN 1
         ELSE (CHOOSE i \in DOMAIN db : \A j \in DOMAIN db : j <= i) + 1
Inserted(row) == [i \in DOMAIN db \cup {NewId} |-> IF i = NewId THEN row ELSE db[i]]
CanInsert == Cardinality(DOMAIN db) < MaxRecords

\* what can happen inside save_transcript_and_summary: a local write
\* fails, or one or both uploads to the output bucket fail
SaveOutcomes ==
    IF conf.out_bucket
    THEN {"saved", "local_failed", "transcript_upload_failed",
          "summary_upload_failed", "uploads_failed"}
    ELSE {"saved", "local_failed"}

\* save_transcript_and_summary, services.py lines 294-372
save_transcript_and_summary(o) ==
    [raised |-> o = "local_failed",
     transcript_s3 |-> IF conf.out_bucket /\ o \in {"saved", "summary_upload_failed"}
                       THEN TranscriptKey ELSE Null,
     summary_s3 |-> IF conf.out_bucket /\ o \in {"saved", "transcript_upload_failed"}
                    THEN SummaryKey ELSE Null]

\* the try/except around the call (main.py 167-178, 228-239, 292-305, 428-439)
Locations(o) ==
    LET saved == save_transcript_and_summary(o)
    IN  IF saved.raised
        THEN [transcript_s3 |-> Null, summary_s3 |-> Null]
        ELSE [transcript_s3 |-> saved.transcript_s3, summary_s3 |-> saved.summary_s3]

Failed(op, status) == [NoResponse EXCEPT !.op = op, !.status = status]
FailedWith(op, status, detail) == [Failed(op, status) EXCEPT !.detail = detail]

\* the response of a handler that created the row `id`
Created(op, id, row, o) ==
    [op |-> op, status |-> 200, id |-> id, transcript |-> row.transcript,
     summary |-> Null, transcript_s3 |-> Locations(o).transcript_s3,
     summary_s3 |-> Locations(o).summary_s3, save |-> o, detail |-> "none"]

\* the application was imported under some configuration (services.py 93)
InitApi ==
    /\ conf \in Confs
    /\ client \in InitOutcomes(conf)
    /\ db = NoRows
    /\ response = NoResponse
    /\ req = [r \in Requests |-> NoRequest]
    /\ now = 0
    /\ stored = NoObjects
    /\ pc = "idle"
    /\ env = NoEnv /\ arg = NoArg /\ fs = NoFiles /\ created_temp = <<>>
    /\ mp3_path = NoPath /\ uploads = 0 /\ hosted = "none" /\ chunked = FALSE
    /\ splitCalls = 0 /\ stack = <<>> /\ made = NoFiles /\ chunk_paths = <<>>
    /\ submitted = <<>> /\ failedIdx = {} /\ combined_texts = <<>>
    /\ provider_raw_list = <<>> /\ result = NoResult /\ raised = "none"

\* /upload, main.py line 97-98: the file is too large
upload_audio_413 ==
    /\ response' = FailedWith("upload", 413, "File too large")
    /\ UNCHANGED <<conf, db, client, req, pipeVars, now, stored>>

\* mutant: the row is committed before the upload/transcribe step is tried
upload_audio_500_KeepsRow ==
    /\ \E detail \in {"convert_to_mp3 failed", "upload/transcribe step failed",
                      "commit failed"} :
         response' = FailedWith("upload", 500, detail)
    /\ db' = IF CanInsert THEN Inserted(Row(FILENAME, "")) ELSE db
    /\ UNCHANGED <<conf, client, req, pipeVars, now, stored>>

\* /upload: convert_to_mp3 raises (110-115), transcribe_audio raises
\* (128-130) or the commit fails (194-196)
upload_audio_500 ==
    /\ \E detail \in {"convert_to_mp3 failed", "upload/transcribe step failed",
                      "commit failed"} :
         response' = FailedWith("upload", 500, detail)
    /\ UNCHANGED <<conf, db, client, req, pipeVars, now, stored>>

\* /upload, lines 117-190: transcribe_audio returned, upload-only or with
\* a text; an empty text is replaced by the "Uploaded to" line
upload_audio ==
    /\ conf.in_bucket
    /\ CanInsert
    /\ \E transcribe \in BOOLEAN, o \in SaveOutcomes :
         \E text \in IF transcribe THEN {"text", UploadedTo} ELSE {UploadedTo} :
            /\ db' = Inserted(Row(FILENAME, text))
            /\ response' = Created("upload", NewId, Row(FILENAME, text), o)
    /\ UNCHANGED <<conf, client, req, pipeVars, now, stored>>

\* /transcript: the commit fails (main.py 250-252)
save_direct_transcript_500 ==
    /\ response' = Failed("transcript", 500)
    /\ UNCHANGED <<conf, db, client, req, pipeVars, now, stored>>

\* mutant: a failure of the output copies is passed on as the response
save_direct_transcript_Unguarded ==
    /\ CanInsert
    /\ \E transcript \in {"text", ""}, o \in SaveOutcomes :
         /\ db' = Inserted(Row(FILENAME, transcript))
         /\ response' = IF save_transcript_and_summary(o).raised
                        THEN [Failed("transcript", 500) EXCEPT !.id = NewId, !.save = o]
                        ELSE Created("transcript", NewId, Row(FILENAME, transcript), o)
    /\ UNCHANGED <<conf, client, req, pipeVars, now, stored>>

\* mutant: a transcript sent under a known filename replaces that row's text
save_direct_transcript_Upserts ==
    /\ \E transcript \in {"text", ""}, o \in SaveOutcomes :
         LET same == {i \in DOMAIN db : db[i].filename = FILENAME}
         IN  IF same # {}
             THEN LET i == CHOOSE j \in same : TRUE
                  IN  /\ db' = [db EXCEPT ![i].transcript = transcript]
                      /\ response' = Created("transcript", i, Row(FILENAME, transcript), o)
             ELSE /\ db' = Inserted(Row(FILENAME, transcript))
                  /\ response' = Created("transcript", NewId, Row(FILENAME, transcript), o)
    /\ UNCHANGED <<conf, client, req, pipeVars, now, stored>>

\* /transcript, main.py lines 214-249
save_direct_transcript ==
    /\ CanInsert
    /\ \E transcript \in {"text", ""}, o \in SaveOutcomes :
         /\ db' = Inserted(Row(FILENAME, transcript))
         /\ response' = Created("transcript", NewId, Row(FILENAME, transcript), o)
    /\ UNCHANGED <<conf, client, req, pipeVars, now, stored>>

\* /s3/trigger, lines 392-393: no s3_key
s3_trigger_400 ==
    /\ response' = FailedWith("trigger", 400, "s3_key is required")
    /\ UNCHANGED <<conf, db, client, req, pipeVars, now, stored>>

\* /s3/trigger: no input bucket (395-396), transcribe_audio raises
\* (413-415) or the commit fails (455-457)
s3_trigger_500 ==
    /\ \E detail \in IF conf.in_bucket THEN {"Transcription failed", "commit failed"}
                      ELSE {"TRANSFORM_INPUT_BUCKET not set"} :
         response' = FailedWith("trigger", 500, detail)
    /\ UNCHANGED <<conf, db, client, req, pipeVars, now, stored>>

\* /s3/trigger, lines 398-451
s3_trigger ==
    /\ conf.in_bucket
    /\ CanInsert
    /\ \E transcribe \in BOOLEAN, o \in SaveOutcomes :
         \E text \in IF transcribe THEN {"text", UploadedTo} ELSE {UploadedTo} :
            /\ db' = Inserted(Row(FILENAME, text))
            /\ response' = Created("trigger", NewId, Row(FILENAME, text), o)
    /\ UNCHANGED <<conf, client, req, pipeVars, now, stored>>

\* ids a request may name
Ids == 1..(MaxRecords + 1)

\* GET /transcription/{id}, lines 259-260
get_transcription_404 ==
    /\ \E id \in Ids \ DOMAIN db : response' = Failed("get", 404)
    /\ UNCHANGED <<conf, db, client, req, pipeVars, now, stored>>

\* GET /transcription/{id}, lines 258-268
get_transcription ==
    /\ \E id \in DOMAIN db :
         response' = [Failed("get", 200) EXCEPT !.id = id,
                         !.transcript = db[id].transcript, !.summary = db[id].summary]
    /\ UNCHANGED <<conf, db, client, req, pipeVars, now, stored>>

\* lines 447-449 and 605-608: an unset handle is initialised again; the
\* handles the function can go on with
Handles == IF client = Null THEN InitOutcomes(conf) ELSE {client}

\* summarize_meeting: the summaries it can return for a transcript with
\* the handle h; none when it raises for want of a client
Summaries(transcript, h) ==
    IF transcript = "" THEN {NoTranscriptSummary}
    ELSE IF h = Null THEN {}
    ELSE {"summary A", "summary B"}

\* what makes /summarize answer 500 for a transcript, with the handle h:
\* summarize_meeting raises for want of a client (605-608) or on a provider
\* error (631-633), or db.commit() raises (main.py 288)
SummaryErrors(transcript, h) ==
    IF transcript = "" THEN {"commit failed"}
    ELSE IF h = Null THEN {"OpenAI client not initialized"}
    ELSE {"Summarization error", "commit failed"}

\* POST /summarize/{id}, lines 274-275
create_summary_404 ==
    /\ \E id \in Ids \ DOMAIN db :
         response' = FailedWith("summarize", 404, "Transcription not found")
    /\ UNCHANGED <<conf, db, client, req, pipeVars, now, stored>>

\* mutant: a failed summarization removes the row it was asked about
create_summary_500_DropsRow ==
    /\ \E id \in DOMAIN db, h \in Handles :
         /\ db' = [i \in DOMAIN db \ {id} |-> db[i]]
         /\ client' = IF db[id].transcript = "" THEN client ELSE h
         /\ \E detail \in SummaryErrors(db[id].transcript, h) :
              response' = FailedWith("summarize", 500, detail)
    /\ UNCHANGED <<conf, req, pipeVars, now, stored>>

\* mutant: the summary field is written before summarize_meeting is called
create_summary_500_WritesSummary ==
    /\ \E id \in DOMAIN db, h \in Handles :
         /\ client' = IF db[id].transcript = "" THEN client ELSE h
         /\ db' = [db EXCEPT ![id].summary = ""]
         /\ \E detail \in SummaryErrors(db[id].transcript, h) :
              response' = FailedWith("summarize", 500, detail)
    /\ UNCHANGED <<conf, req, pipeVars, now, stored>>

\* POST /summarize/{id}: summarize_meeting raises (no client, provider
\* error) or the commit fails; lines 306-308
create_summary_500 ==
    /\ \E id \in DOMAIN db, h \in Handles :
         /\ client' = IF db[id].transcript = "" THEN client ELSE h
         /\ \E detail \in SummaryErrors(db[id].transcript, h) :
              response' = FailedWith("summarize", 500, detail)
    /\ UNCHANGED <<conf, db, req, pipeVars, now, stored>>

\* mutant: attaching a summary stamps the row with the current time
create_summary_Restamps ==
    /\ \E id \in DOMAIN db, o \in SaveOutcomes, h \in Handles :
         \E summary \in Summaries(db[id].transcript, h) :
            /\ db' = [db EXCEPT ![id].summary = summary, ![id].created_at = now]
            /\ client' = IF db[id].transcript = "" THEN client ELSE h
            /\ response' = [op |-> "summarize", status |-> 200, id |-> id,
                            transcript |-> Null, summary |-> summary,
                            transcript_s3 |-> Locations(o).transcript_s3,
                            summary_s3 |-> Locations(o).summary_s3, save |-> o,
                            detail |-> "none"]
    /\ UNCHANGED <<conf, req, pipeVars, now, stored>>

\* POST /summarize/{id}, lines 273-305
create_summary ==
    /\ \E id \in DOMAIN db, o \in SaveOutcomes, h \in Handles :
         \E summary \in Summaries(db[id].transcript, h) :
            /\ db' = [db EXCEPT ![id].summary = summary]
            /\ client' = IF db[id].transcript = "" THEN client ELSE h
            /\ response' = [op |-> "summarize", status |-> 200, id |-> id,
                            transcript |-> Null, summary |-> summary,
                            transcript_s3 |-> Locations(o).transcript_s3,
                            summary_s3 |-> Locations(o).summary_s3, save |-> o,
                            detail |-> "none"]
    /\ UNCHANGED <<conf, req, pipeVars, now, stored>>

\* GET /export/{id}, lines 314-315
export_markdown_404 ==
    /\ \E id \in Ids \ DOMAIN db : response' = Failed("export", 404)
    /\ UNCHANGED <<conf, db, client, req, pipeVars, now, stored>>

\* GET /export/{id}: the local writes of both savers fail, lines 338-345
export_markdown_500 ==
    /\ \E id \in DOMAIN db : response' = [Failed("export", 500) EXCEPT !.save = "local_failed"]
    /\ UNCHANGED <<conf, db, client, req, pipeVars, now, stored>>

\* GET /export/{id}, lines 317-342: the S3 location of the summary, or the
\* local file, or the file of the local-only saver
export_markdown ==
    /\ \E id \in DOMAIN db, o \in SaveOutcomes :
         LET saved == save_transcript_and_summary(o)
         IN  response' = [Failed("export", 200) EXCEPT !.id = id,
                             !.summary = db[id].summary,
                             !.summary_s3 = IF saved.raised THEN Null ELSE saved.summary_s3,
                             !.save = o]
    /\ UNCHANGED <<conf, db, client, req, pipeVars, now, stored>>

\* the seconds the clock shows
Seconds == {0, 1}

\* datetime.utcnow() reaches the next second
Tick ==
    /\ now + 1 \in Seconds
    /\ now' = now + 1
    /\ UNCHANGED <<conf, db, response, client, req, stored, pipeVars>>

NextApi ==
    \/ upload_audio_413 \/ upload_audio_500 \/ upload_audio
    \/ save_direct_transcript_500 \/ save_direct_transcript
    \/ s3_trigger_400 \/ s3_trigger_500 \/ s3_trigger
    \/ get_transcription_404 \/ get_transcription
    \/ create_summary_404 \/ create_summary_500 \/ create_summary
    \/ export_markdown_404 \/ export_markdown_500 \/ export_markdown

ApiSpec == InitApi /\ [][NextApi]_vars

\* the same handlers over more than one second of the clock, in a deployment
\* with the provider key and the input bucket set that keeps its artifacts
\* in outputs_dir (OUTPUT_S3_BUCKET unset)
LocalOutputs == [key |-> TRUE, in_bucket |-> TRUE, out_bucket |-> FALSE]
InitTimed == InitApi /\ conf = LocalOutputs
NextTimed == Tick \/ NextApi
TimedSpec == InitTimed /\ [][NextTimed]_vars

\* C14 as stated: once /summarize has attached a summary to a record, no
\* later operation, a repeated /summarize on the same id included, changes
\* that record.
C14_MutatedOnce ==
    [][\A i \in DOMAIN db :
          db[i].summary # Null => i \in DOMAIN db' /\ db'[i] = db[i]]_vars

\* C14 amended: an existing record is changed only by a successful
\* /summarize on its id, and only in its summary field, which takes the
\* summary the response carries; every successful /summarize may replace
\* the summary again.  No other operation, and no failed one, changes an
\* existing record.
C14_OnlySummarizeMutates ==
    [][\A i \in DOMAIN db :
          (i \in DOMAIN db' /\ db'[i] # db[i]) =>
              /\ response'.op = "summarize" /\ response'.status = 200
              /\ response'.id = i
              /\ db'[i] = [db[i] EXCEPT !.summary = response'.summary]
              /\ \A j \in DOMAIN db \ {i} : j \in DOMAIN db' /\ db'[j] = db[j]]_vars

\* a summary was attached to the second record, the first keeps its own
C14_Witness ==
    /\ DOMAIN db = {1, 2}
    /\ db[1].summary = "summary A" /\ db[2].summary = "summary B"
    /\ response.op = "summarize" /\ response.status = 200 /\ response.id = 2

\* C15: Transcription records are never deleted: a record that exists
\* exists after every operation, upload, direct transcript, S3 trigger,
\* read, summarize and export, also when the operation ends in an error.
C15_NeverDeleted == [][DOMAIN db \subseteq DOMAIN db']_vars

\* two records are there after a summarize request that failed
C15_Witness ==
    /\ DOMAIN db = {1, 2}
    /\ response.op = "summarize" /\ response.status = 500

Writers == {"upload", "transcript", "trigger", "summarize"}
TranscriptCopyFailed(o) == o \in {"local_failed", "transcript_upload_failed", "uploads_failed"}
SummaryCopyFailed(o) == o \in {"local_failed", "summary_upload_failed", "uploads_failed"}

InitClient ==
    /\ conf \in Confs
    /\ client \in InitOutcomes(conf)
    /\ db = NoRows
    /\ response = NoResponse
    /\ req = [r \in Requests |-> NoRequest]
    /\ now = 0
    /\ stored = NoObjects
    /\ pc = "idle"
    /\ env = NoEnv /\ arg = NoArg /\ fs = NoFiles /\ created_temp = <<>>
    /\ mp3_path = NoPath /\ uploads = 0 /\ hosted = "none" /\ chunked = FALSE
    /\ splitCalls = 0 /\ stack = <<>> /\ made = NoFiles /\ chunk_paths = <<>>
    /\ submitted = <<>> /\ failedIdx = {} /\ combined_texts = <<>>
    /\ provider_raw_list = <<>> /\ result = NoResult /\ raised = "none"

clientFrame == <<conf, db, response, now, stored, pipeVars>>

\* a request enters transcribe_with_openai_chunk (line 446) or
\* summarize_meeting (line 602); `reply` is what the provider will answer it
BeginRequest ==
    /\ \E r \in Requests :
         /\ req[r].pc = "idle"
         /\ \E fn \in {"transcribe", "summarize"}, reply \in {"ok", "error"} :
              \E transcript \in IF fn = "summarize" THEN {"text", ""} ELSE {"text"} :
                 req' = [req EXCEPT ![r] = [pc |-> "check", fn |-> fn,
                                            transcript |-> transcript, reply |-> reply,
                                            init |-> "not_run", outcome |-> "none"]]
    /\ UNCHANGED <<client, clientFrame>>

\* summarize_meeting, lines 603-604: nothing to summarize
ReturnNoTranscript ==
    /\ \E r \in Requests :
         /\ req[r].pc = "check"
         /\ req[r].fn = "summarize" /\ req[r].transcript = ""
         /\ req' = [req EXCEPT ![r].pc = "done", ![r].outcome = "no_transcript"]
    /\ UNCHANGED <<client, clientFrame>>

NeedsClient(q) == ~(q.fn = "summarize" /\ q.transcript = "")

\* lines 447 and 605: the handle is set, the request goes on to the call
ClientReady ==
    /\ \E r \in Requests :
         /\ req[r].pc = "check" /\ NeedsClient(req[r])
         /\ client # Null
         /\ req' = [req EXCEPT ![r].pc = "call"]
    /\ UNCHANGED <<client, clientFrame>>

\* lines 447-449 and 605-608: the handle is unset and initialised again,
\* which writes services.client; if that fails the request raises
Reinitialize ==
    /\ \E r \in Requests :
         /\ req[r].pc = "check" /\ NeedsClient(req[r])
         /\ client = Null
         /\ \E h \in InitOutcomes(conf) :
              /\ client' = h
              /\ req' = IF h = Null
                        THEN [req EXCEPT ![r].pc = "done", ![r].init = "failed",
                                         ![r].outcome = "not_initialized"]
                        ELSE [req EXCEPT ![r].pc = "call", ![r].init = "ok"]
    /\ UNCHANGED clientFrame

\* mutant: a provider error makes the request drop the shared handle
CallProvider_DropsClient ==
    /\ \E r \in Requests :
         /\ req[r].pc = "call"
         /\ req' = [req EXCEPT ![r].pc = "done",
                               ![r].outcome = IF client = Null THEN "error" ELSE req[r].reply]
         /\ client' = IF req[r].reply = "error" THEN Null ELSE client
    /\ UNCHANGED clientFrame

\* lines 450-470 and 622: services.client is read again at the call; the
\* provider answers, or the call fails
CallProvider ==
    /\ \E r \in Requests :
         /\ req[r].pc = "call"
         /\ req' = [req EXCEPT ![r].pc = "done",
                               ![r].outcome = IF client = Null THEN "error" ELSE req[r].reply]
    /\ UNCHANGED <<client, clientFrame>>

\* the request is answered; the next one may come
EndRequest ==
    /\ \E r \in Requests :
         /\ req[r].pc = "done"
         /\ req' = [req EXCEPT ![r] = NoRequest]
    /\ UNCHANGED <<client, clientFrame>>

NextClient ==
    \/ BeginRequest \/ ReturnNoTranscript \/ ClientReady \/ Reinitialize
    \/ CallProvider \/ EndRequest

ClientSpec == InitClient /\ [][NextClient]_vars

\* C18 as stated: apart from the database, request handling reads and
\* writes no process-wide mutable state, so that under any interleaving of
\* two requests none depends on the other through the module-level client
\* handle: no step of a request changes the handle.
C18_NoProcessWideState == [][client' = client]_vars

\* C18 amended: the provider client handle is process-wide state that
\* requests read and write.  A request that finds it unset initialises it
\* again, and a handle set that way serves every later request; once set it
\* is never unset.  A request's outcome is its own provider reply, unless
\* its own initialisation failed; it depends on another request only in
\* being spared the initialisation after the other one's succeeded.
C18_HandleState ==
    /\ ~conf.key => client = Null
    /\ \A r \in Requests :
         /\ req[r].pc = "call" => client # Null
         /\ req[r].init = "failed" <=> req[r].outcome = "not_initialized"
         /\ (req[r].pc = "done" /\ NeedsClient(req[r]) /\ req[r].init # "failed")
               => req[r].outcome = req[r].reply
         /\ (req[r].pc = "done" /\ ~NeedsClient(req[r]))
               => req[r].outcome = "no_transcript" /\ req[r].init = "not_run"
C18_HandleSetOnce ==
    /\ []C18_HandleState
    /\ [][client' # client =>
            /\ client = Null /\ client' = "ready"
            /\ \E r \in Requests :
                 /\ req[r].pc = "check" /\ req'[r].pc = "call" /\ req'[r].init = "ok"
                 /\ \A q \in Requests \ {r} : req'[q] = req[q]]_vars

\* the first request set the handle, the second one was answered with it
C18_Witness ==
    /\ req[1].init = "ok" /\ req[1].pc \in {"call", "done"}
    /\ req[2].init = "not_run" /\ req[2].pc = "done"
    /\ req[2].fn = "transcribe" /\ req[2].outcome = "ok"

\* ------------------------------------------------------------------- C21
\* the splitter has handed its list to the caller and nothing has touched the
\* files since: a direct call has returned, or transcribe_audio is in its
\* chunk loop (which only reads)
JustSplit == SplitReturned /\ (InSplit \/ pc = "loop")

\* C21: every path in the list returned by split_wav_to_chunks names a file
\* that exists when the function returns, also when a recursive call handed
\* an oversize chunk back unsplit and the caller then unlinked it
C21_ReturnedPathsExist ==
    JustSplit => Range(chunk_paths) \subseteq DOMAIN fs

\* ------------------------------------------------------------------- C22
\* a provider has been invoked: AssemblyAI was tried, or the chunked path
\* (WAV conversion, splitting, the chunk loop) was entered
PastUpload == hosted # "none" \/ chunked \/ submitted # <<>>

\* C22 as stated: every transcribe_audio call uploads the audio exactly once.
C22_UploadedInEveryCall ==
    (InTranscribe /\ Exited) => uploads = 1

\* C22 amended: a call never uploads twice; it has uploaded exactly once,
\* and the object is in the bucket, whenever a provider is invoked or the
\* call returns; a call that fails up to the upload step stores nothing; no
\* step removes the object, so a call that raises later leaves it behind.
C22_UploadOnceFirst ==
    /\ [](InTranscribe =>
            /\ uploads <= 1
            /\ (uploads = 1) = (AudioObject(now) \in DOMAIN stored)
            /\ (PastUpload \/ pc = "done") => uploads = 1
            /\ (pc = "raised" /\ ~PastUpload) => uploads = 0)
    /\ [][InTranscribe => /\ DOMAIN stored \subseteq DOMAIN stored'
                          /\ (PastUpload' /\ ~PastUpload) => uploads = 1]_vars

\* witness: the splitter failed after the upload and the audio is still stored
C22_Witness ==
    /\ InTranscribe /\ pc = "raised" /\ raised = "split_failed"
    /\ uploads = 1
    /\ AudioObject(now) \in DOMAIN stored

\* ------------------------------------------------------------------- C23
Ingest == {"upload", "trigger"}

\* C23: /upload and /s3/trigger create a record only after the
\* upload/transcribe step has returned: when the file is too large, the
\* conversion fails or transcribe_audio raises, the handler answers with an
\* error and the set of records is unchanged; a record they create carries
\* what the step returned, and the response is a success naming it.
C23_RecordAfterStep ==
    [][/\ (response'.op \in Ingest /\ response'.status # 200) => db' = db
       /\ (response'.op \in Ingest /\ db' # db) =>
            /\ response'.status = 200
            /\ DOMAIN db' = DOMAIN db \cup {response'.id}
            /\ response'.id \notin DOMAIN db
            /\ \A i \in DOMAIN db : db'[i] = db[i]
            /\ db'[response'.id].transcript = response'.transcript
            /\ response'.transcript \in {"text", UploadedTo}]_vars

\* witness: transcribe_audio raised for an upload while a record existed
C23_Witness ==
    /\ response.op = "upload" /\ response.status = 500
    /\ response.detail = "upload/transcribe step failed"
    /\ db # NoRows

\* ------------------------------------------------------------------- C24
\* C24: when /summarize fails (unknown id, provider client not initialised,
\* the summarization call raising) no record changes; a summary is committed
\* only with the value summarize_meeting returned, which for a transcript
\* with text needs the provider client, and the response carries that value.
C24_FailedSummaryChangesNothing ==
    [][/\ (response'.op = "summarize" /\ response'.status # 200) => db' = db
       /\ \A i \in DOMAIN db \cap DOMAIN db' :
            db'[i].summary # db[i].summary =>
              /\ response'.op = "summarize" /\ response'.status = 200
              /\ response'.id = i
              /\ db'[i].summary = response'.summary
              /\ db'[i].summary \in Summaries(db[i].transcript, client')
              /\ \A j \in DOMAIN db \ {i} : j \in DOMAIN db' /\ db'[j] = db[j]]_vars

\* witness: /summarize failed for want of a provider client while a record
\* with a summary and another record existed
C24_Witness ==
    /\ response.op = "summarize" /\ response.status = 500
    /\ response.detail = "OpenAI client not initialized"
    /\ \E i, j \in DOMAIN db : i # j /\ db[i].summary = NoTranscriptSummary

\* ------------------------------------------------------------------- C25
\* the columns of a row other than its summary
FixedColumns(row) ==
    <<row.filename, row.transcript, row.speakers, row.created_at>>

\* C25: once a record exists, its id, filename, transcript, speakers and
\* creation timestamp never change; a step that changes a record is a
\* /summarize on that record (and changes its summary only); read and
\* export steps change no record.
C25_RecordFrame ==
    [][/\ \A i \in DOMAIN db :
            /\ i \in DOMAIN db'
            /\ FixedColumns(db'[i]) = FixedColumns(db[i])
            /\ db'[i] # db[i] => response'.op = "summarize" /\ response'.id = i
       /\ response'.op \in {"get", "export"} => db' = db]_vars

\* witness: a record made in one second is summarised and exported in the next
C25_Witness ==
    /\ response.op = "export" /\ response.status = 200
    /\ now = 1
    /\ db[response.id].created_at = 0
    /\ db[response.id].summary \in {"summary A", "summary B"}

\* ------------------------------ save_transcript_and_summary and the clock
\* Calls of save_transcript_and_summary, each for the record whose
\* transcript and summary its caller passes, with the clock advancing
\* between them or not. The function runs to its end before the next call.

\* the files of outputs_dir (services.py 312-316) and the keys of the output
\* bucket (351-352) that a call made at second ts writes
TranscriptFile(base, ts) == <<"outputs_dir", base, "txt", ts>>
SummaryFile(base, ts) == <<"outputs_dir", base, "md", ts>>
TranscriptObject(ts) == <<"outputs/Transcripts", ts>>
SummaryObject(ts) == <<"outputs/Summary", ts>>

\* the locations a call can have written when it ends with outcome o; a
\* failed local write is the transcript's (320) or the summary's (329)
Written(o, base, ts) ==
    LET files == {TranscriptFile(base, ts), SummaryFile(base, ts)}
    IN  CASE o = "local_failed" -> {{}, {TranscriptFile(base, ts)}}
          [] o = "saved" ->
               {files \cup IF conf.out_bucket
                           THEN {TranscriptObject(ts), SummaryObject(ts)} ELSE {}}
          [] o = "transcript_upload_failed" -> {files \cup {SummaryObject(ts)}}
          [] o = "summary_upload_failed" -> {files \cup {TranscriptObject(ts)}}
          [] o = "uploads_failed" -> {files}

PutAll(st, locs, id) == [k \in DOMAIN st \cup locs |-> IF k \in locs THEN id ELSE st[k]]

InitSave ==
    /\ \E b \in BOOLEAN : conf = [NoConf EXCEPT !.out_bucket = b]
    /\ db = NoRows
    /\ response = NoResponse
    /\ client = Null
    /\ req = [r \in Requests |-> NoRequest]
    /\ now = 0
    /\ stored = NoObjects
    /\ pc = "idle"
    /\ env = NoEnv /\ arg = NoArg /\ fs = NoFiles /\ created_temp = <<>>
    /\ mp3_path = NoPath /\ uploads = 0 /\ hosted = "none" /\ chunked = FALSE
    /\ splitCalls = 0 /\ stack = <<>> /\ made = NoFiles /\ chunk_paths = <<>>
    /\ submitted = <<>> /\ failedIdx = {} /\ combined_texts = <<>>
    /\ provider_raw_list = <<>> /\ result = NoResult /\ raised = "none"

\* lines 294-372, called now with the transcript and summary of record id,
\* whose filename is FILENAME: ts is read once (306) and names every
\* location written
CallSave ==
    /\ \E id \in 1..MaxRecords, o \in SaveOutcomes :
         \E w \in Written(o, FILENAME, now) : stored' = PutAll(stored, w, id)
    /\ UNCHANGED <<conf, db, response, client, req, now, pipeVars>>

NextSave == CallSave \/ Tick

SaveSpec == InitSave /\ [][NextSave]_vars

\* C26: no location that holds the artifact of one record is written again
\* for another record, however the calls are timed: what is stored for a
\* record is never replaced by another record's artifact.
C26_NoOverwrite ==
    [][\A k \in DOMAIN stored : k \in DOMAIN stored' /\ stored'[k] = stored[k]]_vars

=============================================================================
